---- MODULE Spec2Model ----
(***************************************************************************)
(* Model of backend/sentiment_analyzer.py: the SentimentAnalyzer object,   *)
(* its constructor (load + optional auto-train), train_models, analyze,    *)
(* and the ml_models directory it persists to.                             *)
(*                                                                         *)
(* Abstractions of the libraries the code calls (scikit-learn, pickle,     *)
(* json, the OpenAI client):                                               *)
(*  - an estimator object is a record: gen (which train_models call        *)
(*    constructed it, 0 for None), fitted, dim (number of features it was  *)
(*    fitted on) and, for a classifier, classes (the class indices seen    *)
(*    in y_train);                                                         *)
(*  - a training input is the number of texts, the label list and the      *)
(*    size of the vocabulary the vectorizer would retain from the texts;   *)
(*  - probabilities and confidences are integer percentages;               *)
(*  - files under ml_models hold what the program wrote: absent, a         *)
(*    complete dump, or a dump cut short by a failed write.                *)
(***************************************************************************)
EXTENDS Integers, Sequences, FiniteSets, TLC

VARIABLES
    openai_client,      \* self.openai_client is set (an API key was given)
    vectorizer,         \* self.vectorizer
    nb_model,           \* self.nb_model
    lr_model,           \* self.lr_model
    training_history,   \* self.training_history
    disk,               \* the ml_models directory
    runs,               \* number of train_models calls that entered the pipeline
    call,               \* the last completed call and its arguments
    ret,                \* what the last completed call returned
    converted_labels,   \* the local converted_labels of the last pipeline run
    partitions,         \* its locals X_train, X_test, y_train, y_test
    trainer,            \* a train_models call in flight on another thread
    analyzer,           \* an analyze call in flight on another thread
    environ,            \* os.environ of the process that runs main.py
    sentiment_analyzer, \* main.py's global sentiment_analyzer is not None
    detected,           \* what is_build_environment() returned (main.py, test script)
    response            \* the HTTP response to the last request

vars == <<openai_client, vectorizer, nb_model, lr_model, training_history, disk,
          runs, call, ret, converted_labels, partitions, trainer, analyzer,
          environ, sentiment_analyzer, detected, response>>

\* the state of the SentimentAnalyzer object and of its callers
classVars == <<openai_client, vectorizer, nb_model, lr_model, training_history, disk,
               runs, call, ret, converted_labels, partitions, trainer, analyzer>>

\* the state of main.py
appVars == <<environ, sentiment_analyzer, detected, response>>

memVars == <<vectorizer, nb_model, lr_model, training_history>>

----------------------------------------------------------------------------
(* Bounds of the model *)

MaxRuns == 2        \* train_models calls that enter the pipeline
MaxExtra == 0       \* texts beyond the minimum in a training input

(* Program constants *)

MinSamples == 10    \* if len(texts) < 10
SplitPercent == 80  \* int(len(texts) * 0.8)

\* the texts passed to analyze
Texts == {"amazing!!", "it was okay"}

\* a number that stands for the text's terms in the model of predict_proba
TextCode(text) == IF text = "amazing!!" THEN 1 ELSE 2

class_labels == <<"Negative", "Neutral", "Positive">>

----------------------------------------------------------------------------
(* Estimator objects *)

None == [gen |-> 0, fitted |-> FALSE, dim |-> 0, classes |-> {}]

\* `not self.x`: None is falsy, an estimator object (fitted or not) is truthy
IsSet(obj) == obj.gen # 0

\* TfidfVectorizer(...), MultinomialNB(...), LogisticRegression(...): a new,
\* unfitted object made by pipeline run g
NewEstimator(g) == [gen |-> g, fitted |-> FALSE, dim |-> 0, classes |-> {}]

\* the history of an untrained analyzer; cm_nb and cm_lr are None (here <<>>)
InitialHistory ==
    [trained |-> FALSE, samples |-> 0, gen |-> 0, cm_nb |-> <<>>, cm_lr |-> <<>>]

----------------------------------------------------------------------------
(* Training inputs *)

Min(a, b) == IF a < b THEN a ELSE b
Max(a, b) == IF a > b THEN a ELSE b

\* the i-th label of a label list of the given pattern: "mixed" cycles through
\* the three valid labels and two values outside them, "allpos" is all 1
LabelAt(pat, i) ==
    CASE pat = "mixed"  -> <<-1, 0, 1, 2, -2>>[((i - 1) % 5) + 1]
      [] OTHER          -> 1

LabelsOf(pat, m) == [i \in 1..m |-> LabelAt(pat, i)]

\* a call train_models(texts, labels): n = len(texts), labels, vocab = number
\* of terms TfidfVectorizer retains from texts (0: none survive min_df/max_df)
Dataset(n, pat, d, v) == [n |-> n, labels |-> LabelsOf(pat, Max(0, n + d)), vocab |-> v]

\* Inputs of every kind the pipeline distinguishes: too few texts; enough texts
\* with a vocabulary of one or two terms; an empty vocabulary; labels of one
\* class only; label lists shorter or longer than texts
Datasets ==
    { Dataset(n, "mixed", 0, 1) : n \in {0, MinSamples - 1} }
    \cup { Dataset(n, "mixed", 0, 1) : n \in MinSamples .. MinSamples + MaxExtra }
    \cup { Dataset(MinSamples, "mixed", 0, 2),
           Dataset(MinSamples, "mixed", 0, 0),
           Dataset(MinSamples, "allpos", 0, 1) }
    \cup { Dataset(MinSamples, "mixed", d, 1) : d \in {-4, -1, 1} }

\* no input (a call that takes none)
NoDataset == [n |-> 0, labels |-> <<>>, vocab |-> 0]

----------------------------------------------------------------------------
(* train_models: the pipeline, stage by stage *)

\* variant: the default of the lookup is 0
label_map_DefaultZero(l) ==
    CASE l = -1 -> 0
      [] l = 0  -> 1
      [] l = 1  -> 2
      [] OTHER  -> 0

\* label_map.get(l, 1) with label_map = {-1: 0, 0: 1, 1: 2}
label_map(l) ==
    CASE l = -1 -> 0
      [] l = 0  -> 1
      [] l = 1  -> 2
      [] OTHER  -> 1

\* converted_labels = np.array([label_map.get(l, 1) for l in labels])
ConvertLabels(labels) == [i \in DOMAIN labels |-> label_map(labels[i])]

\* variant: the fraction of the held-out part taken for the training part
SplitIdx_HeldOutFraction(n) == (n * (100 - SplitPercent)) \div 100

\* split_idx = int(len(texts) * 0.8)
SplitIdx(n) == (n * SplitPercent) \div 100

\* seq[:k] and seq[k:]
Head_(seq, k) == SubSeq(seq, 1, Min(k, Len(seq)))
Tail_(seq, k) == SubSeq(seq, Min(k, Len(seq)) + 1, Len(seq))

Range(seq) == {seq[i] : i \in DOMAIN seq}

\* the position of c among the sorted values of C, from 0
Rank(c, C) == Cardinality({d \in C : d < c})

y_train(ds) == Head_(ConvertLabels(ds.labels), SplitIdx(ds.n))
y_test(ds) == Tail_(ConvertLabels(ds.labels), SplitIdx(ds.n))

\* rows of X[:split_idx] and X[split_idx:], X having len(texts) rows
XTrainRows(ds) == Min(SplitIdx(ds.n), ds.n)
XTestRows(ds) == ds.n - XTrainRows(ds)

\* variant: the size check is off by one
TooFewSamples_OffByOne(ds) == ds.n < MinSamples - 1

\* the rows of X, one per text in input order: row i stands for sample i
Rows(n) == [i \in 1..n |-> i]

\* X_train, X_test = X[:split_idx], X[split_idx:]
X_train(ds) == Head_(Rows(ds.n), SplitIdx(ds.n))
X_test(ds) == Tail_(Rows(ds.n), SplitIdx(ds.n))

\* len(texts) < 10
TooFewSamples(ds) == ds.n < MinSamples

\* fit_transform raises ValueError when no term survives the pruning
VecFitRaises(ds) == ds.vocab = 0

\* fit(X_train, y_train) raises ValueError when X_train and y_train differ in length
NBFitRaises(ds) == Len(y_train(ds)) # XTrainRows(ds)

\* LogisticRegression.fit raises ValueError on inconsistent lengths and when
\* y_train holds fewer than two classes
LRFitRaises(ds) ==
    \/ Len(y_train(ds)) # XTrainRows(ds)
    \/ Cardinality(Range(y_train(ds))) < 2

\* accuracy_score(y_test, y_pred) raises ValueError when y_test and the
\* predictions for X_test differ in length
MetricsRaise(ds) == Len(y_test(ds)) # XTestRows(ds)

\* y_pred = model.predict(X_test): one class of classes_ (the classes of
\* y_train) per held-out row, a fixed function of the fitted model (its run
\* and kind: 0 for MultinomialNB, 1 for LogisticRegression) and the row
PredictRows(classes, g, kind, rows) ==
    [j \in DOMAIN rows |->
        CHOOSE c \in classes :
            Rank(c, classes) = (g + kind + rows[j]) % Cardinality(classes)]

\* confusion_matrix(y_true, y_pred).tolist() with no labels= argument: rows
\* and columns are the sorted values that occur in y_true or y_pred, so the
\* matrix has as many rows and columns as there are such values
ConfusionMatrix(y_true, y_pred) ==
    LET labels == Range(y_true) \cup Range(y_pred)
        ClassAt(r) == CHOOSE c \in labels : Rank(c, labels) = r - 1
    IN  [r \in 1..Cardinality(labels) |->
            [c \in 1..Cardinality(labels) |->
                Cardinality({i \in DOMAIN y_true :
                                y_true[i] = ClassAt(r) /\ y_pred[i] = ClassAt(c)})]]

\* The statements of the try block that assign to self, in order:
\*   1  self.vectorizer = TfidfVectorizer(...)
\*   2  X = self.vectorizer.fit_transform(texts)
\*   3  self.nb_model = MultinomialNB(alpha=0.5)
\*   4  self.nb_model.fit(X_train, y_train)
\*   5  self.lr_model = LogisticRegression(...)
\*   6  self.lr_model.fit(X_train, y_train)
\*   7  self.training_history = {...}
NumStages == 7

\* how many of them complete before one raises
StagesDone(ds) ==
    IF VecFitRaises(ds) THEN 1
    ELSE IF NBFitRaises(ds) THEN 3
    ELSE IF LRFitRaises(ds) THEN 5
    ELSE IF MetricsRaise(ds) THEN 6
    ELSE NumStages

\* str(e) of the exception the pipeline raises
PipelineError(ds) ==
    IF VecFitRaises(ds) THEN "empty vocabulary"
    ELSE IF NBFitRaises(ds) \/ MetricsRaise(ds) THEN "inconsistent numbers of samples"
    ELSE "needs samples of at least 2 classes"

\* What one call computes from its arguments alone: the early return, the
\* converted labels, the classes of y_train (the classifiers' classes_), the
\* number of statements that complete, the error message, and the confusion
\* matrices of the two classifiers as fitted by run g
Locals(ds) ==
    [too_few |-> TooFewSamples(ds),
     converted_labels |-> ConvertLabels(ds.labels),
     partitions |-> [X_train |-> X_train(ds), X_test |-> X_test(ds),
                     y_train |-> y_train(ds), y_test |-> y_test(ds)],
     classes |-> Range(y_train(ds)),
     done |-> StagesDone(ds),
     error |-> PipelineError(ds),
     cm |-> [g \in 1..MaxRuns |->
                IF StagesDone(ds) < NumStages \/ TooFewSamples(ds)
                THEN [nb |-> <<>>, lr |-> <<>>]
                ELSE [nb |-> ConfusionMatrix(y_test(ds),
                                PredictRows(Range(y_train(ds)), g, 0, X_test(ds))),
                      lr |-> ConfusionMatrix(y_test(ds),
                                PredictRows(Range(y_train(ds)), g, 1, X_test(ds)))]]]

\* the same, tabulated over the inputs of the model
LocalsOf == [ds \in Datasets \cup {NoDataset} |-> Locals(ds)]

\* an estimator of run g after fit
Fitted(g, dim, classes) == [gen |-> g, fitted |-> TRUE, dim |-> dim, classes |-> classes]

\* self.vectorizer after k statements of pipeline run g
VectorizerAfter(s, ds, g, k) ==
    IF k < 1 THEN s.vectorizer
    ELSE IF k < 2 THEN NewEstimator(g)
    ELSE Fitted(g, ds.vocab, {})

\* self.nb_model after k statements
NBAfter(s, ds, g, k) ==
    IF k < 3 THEN s.nb_model
    ELSE IF k < 4 THEN NewEstimator(g)
    ELSE Fitted(g, ds.vocab, LocalsOf[ds].classes)

\* self.lr_model after k statements
LRAfter(s, ds, g, k) ==
    IF k < 5 THEN s.lr_model
    ELSE IF k < 6 THEN NewEstimator(g)
    ELSE Fitted(g, ds.vocab, LocalsOf[ds].classes)

\* variant: samples counts the training partition
HistoryAfter_TrainingPartition(s, ds, g, k) ==
    IF k < NumStages THEN s.training_history
    ELSE [trained |-> TRUE, samples |-> SplitIdx(ds.n), gen |-> g,
          cm_nb |-> LocalsOf[ds].cm[g].nb, cm_lr |-> LocalsOf[ds].cm[g].lr]

\* self.training_history after k statements
HistoryAfter(s, ds, g, k) ==
    IF k < NumStages THEN s.training_history
    ELSE [trained |-> TRUE, samples |-> ds.n, gen |-> g,
          cm_nb |-> LocalsOf[ds].cm[g].nb, cm_lr |-> LocalsOf[ds].cm[g].lr]

\* self after k statements of pipeline run g on input ds
AfterStage(s, ds, g, k) ==
    [vectorizer |-> VectorizerAfter(s, ds, g, k),
     nb_model |-> NBAfter(s, ds, g, k),
     lr_model |-> LRAfter(s, ds, g, k),
     training_history |-> HistoryAfter(s, ds, g, k)]

\* the try block ran to the end (no statement raised)
PipelineCompletes(ds) == LocalsOf[ds].done = NumStages

----------------------------------------------------------------------------
(* The ml_models directory: _save_models and _load_models *)

AbsentPkl == [st |-> "absent", data |-> None]
AbsentJson == [st |-> "absent", data |-> InitialHistory]

\* what a write that failed after open(..., 'w') leaves behind
Truncated(file) == [file EXCEPT !.st = "trunc"]

\* pickle.dump(obj, f) / json.dump(self.training_history, f), completed
Dumped(obj) == [st |-> "ok", data |-> obj]

EmptyDisk == [dir |-> FALSE, vec |-> AbsentPkl, nb |-> AbsentPkl, lr |-> AbsentPkl,
              hist |-> AbsentJson]

\* How a _save_models call goes: it fails at step `at` (0: os.makedirs, 1..4: the
\* file of that position, 5: nowhere), at a file either in open() or in the dump
NoFailure == [at |-> 5, how |-> "open"]

IoOutcomes ==
    {[at |-> 0, how |-> "open"], NoFailure, [at |-> 4, how |-> "open"]}
    \cup {[at |-> k, how |-> "dump"] : k \in 1..4}

\* one `with open(path, 'wb') as f: dump(obj, f)` under outcome io, for file k
\* (blank: the absent file of that kind)
WriteFile(old, obj, blank, k, io) ==
    IF io.at > k THEN Dumped(obj)
    ELSE IF io.at = k /\ io.how = "dump" THEN Truncated(blank)
    ELSE old

\* _save_models: the directory after the call; no exception escapes it
SaveModels(s, d, io) ==
    IF io.at = 0 THEN d
    ELSE [dir  |-> TRUE,
          vec  |-> WriteFile(d.vec, s.vectorizer, AbsentPkl, 1, io),
          nb   |-> WriteFile(d.nb, s.nb_model, AbsentPkl, 2, io),
          lr   |-> WriteFile(d.lr, s.lr_model, AbsentPkl, 3, io),
          hist |-> WriteFile(d.hist, s.training_history, AbsentJson, 4, io)]

\* os.path.exists(p)
Exists(file) == file.st # "absent"

\* pickle.load / json.load raise on a file cut short
LoadRaises(file) == file.st = "trunc"

\* variant: only the directory is tested before the files are opened (opening
\* a missing file raises into the except clause)
LoadModels_NoFilesCheck(s, d) ==
    LET s1 == [s EXCEPT !.vectorizer = d.vec.data]
        s2 == [s1 EXCEPT !.nb_model = d.nb.data]
        s3 == [s2 EXCEPT !.lr_model = d.lr.data]
        s4 == IF Exists(d.hist) THEN [s3 EXCEPT !.training_history = d.hist.data] ELSE s3
        s5 == [s4 EXCEPT !.training_history.trained = TRUE]
    IN  IF ~d.dir THEN s
        ELSE IF ~Exists(d.vec) \/ LoadRaises(d.vec) THEN s
        ELSE IF ~Exists(d.nb) \/ LoadRaises(d.nb) THEN s1
        ELSE IF ~Exists(d.lr) \/ LoadRaises(d.lr) THEN s2
        ELSE IF Exists(d.hist) /\ LoadRaises(d.hist) THEN s3
        ELSE s5

\* variant: training_history.json is not read back
LoadModels_HistoryNotRead(s, d) ==
    LET s1 == [s EXCEPT !.vectorizer = d.vec.data]
        s2 == [s1 EXCEPT !.nb_model = d.nb.data]
        s3 == [s2 EXCEPT !.lr_model = d.lr.data]
        s5 == [s3 EXCEPT !.training_history.trained = TRUE]
    IN  IF ~d.dir THEN s
        ELSE IF ~(Exists(d.vec) /\ Exists(d.nb) /\ Exists(d.lr)) THEN s
        ELSE IF LoadRaises(d.vec) THEN s
        ELSE IF LoadRaises(d.nb) THEN s1
        ELSE IF LoadRaises(d.lr) THEN s2
        ELSE s5

\* variant: the trained flag is set before the three pickles are read
LoadModels_TrainedFirst(s, d) ==
    LET s0 == [s EXCEPT !.training_history.trained = TRUE]
        s1 == [s0 EXCEPT !.vectorizer = d.vec.data]
        s2 == [s1 EXCEPT !.nb_model = d.nb.data]
        s3 == [s2 EXCEPT !.lr_model = d.lr.data]
        s4 == IF Exists(d.hist) THEN [s3 EXCEPT !.training_history = d.hist.data] ELSE s3
        s5 == [s4 EXCEPT !.training_history.trained = TRUE]
    IN  IF ~d.dir THEN s
        ELSE IF ~(Exists(d.vec) /\ Exists(d.nb) /\ Exists(d.lr)) THEN s
        ELSE IF LoadRaises(d.vec) THEN s0
        ELSE IF LoadRaises(d.nb) THEN s1
        ELSE IF LoadRaises(d.lr) THEN s2
        ELSE IF Exists(d.hist) /\ LoadRaises(d.hist) THEN s3
        ELSE s5

\* _load_models: self after the call; the except clause keeps what was assigned
\* before the statement that raised
LoadModels(s, d) ==
    LET s1 == [s EXCEPT !.vectorizer = d.vec.data]
        s2 == [s1 EXCEPT !.nb_model = d.nb.data]
        s3 == [s2 EXCEPT !.lr_model = d.lr.data]
        s4 == IF Exists(d.hist) THEN [s3 EXCEPT !.training_history = d.hist.data] ELSE s3
        s5 == [s4 EXCEPT !.training_history.trained = TRUE]
    IN  IF ~d.dir THEN s
        ELSE IF ~(Exists(d.vec) /\ Exists(d.nb) /\ Exists(d.lr)) THEN s
        ELSE IF LoadRaises(d.vec) THEN s
        ELSE IF LoadRaises(d.nb) THEN s1
        ELSE IF LoadRaises(d.lr) THEN s2
        ELSE IF Exists(d.hist) /\ LoadRaises(d.hist) THEN s3
        ELSE s5

----------------------------------------------------------------------------
(* analyze_with_openai *)

EntryKeys == {"sentiment", "confidence", "explanation"}

\* A value json.loads can return, or None
JDict(keys, sent, conf, expl) ==
    [type |-> "dict", keys |-> keys, sentiment |-> sent, confidence |-> conf,
     explanation |-> expl]
JList == [type |-> "list", keys |-> {}, sentiment |-> "", confidence |-> 0,
          explanation |-> ""]
NoneValue == [type |-> "None", keys |-> {}, sentiment |-> "", confidence |-> 0,
              explanation |-> ""]

\* `if gpt_result:`: None and {} are falsy; a non-empty dict or list is truthy
Truthy(v) ==
    CASE v.type = "dict" -> v.keys # {}
      [] v.type = "list" -> TRUE
      [] OTHER -> FALSE

\* What the service does with one request: the request raises, the reply has no
\* text content, the content is not JSON, or the content is a JSON value
JsonReplies ==
    { JDict(EntryKeys, "Positive", 90, "ok"),
      JDict(EntryKeys, "Mixed", 150, "ok"),
      JDict({}, "", 0, ""),
      JList }

Replies ==
    { [kind |-> k, value |-> NoneValue] : k \in {"raise", "no_content", "not_json"} }
    \cup { [kind |-> "json", value |-> v] : v \in JsonReplies }

\* the dict returned on json.JSONDecodeError
ParseFallback == JDict(EntryKeys, "Neutral", 50, "Could not parse response")

\* the try body raises: the request itself, or json.loads(None) (a TypeError,
\* which `except json.JSONDecodeError` does not catch)
OpenAIRaises(client, reply) ==
    client /\ reply.kind \in {"raise", "no_content"}

\* The outcome of a call: it returns val, or an exception escapes it
Returns(v) == [exc |-> FALSE, val |-> v]
Raises(v) == [exc |-> TRUE, val |-> v]

\* variant: without the outer `except Exception`
analyze_with_openai_Unguarded(client, reply) ==
    IF ~client THEN Returns(NoneValue)
    ELSE IF OpenAIRaises(client, reply) THEN Raises(NoneValue)
    ELSE IF reply.kind = "not_json" THEN Returns(ParseFallback)
    ELSE Returns(reply.value)

\* variant: a reply that is not JSON is handled like a failed request
analyze_with_openai_ParseFailureIsNone(client, reply) ==
    IF ~client THEN Returns(NoneValue)
    ELSE IF OpenAIRaises(client, reply) THEN Returns(NoneValue)
    ELSE IF reply.kind = "not_json" THEN Returns(NoneValue)
    ELSE Returns(reply.value)

\* analyze_with_openai(text): None without a client; None from
\* `except Exception`; the fixed dict from `except json.JSONDecodeError`;
\* otherwise whatever json.loads returned
analyze_with_openai(client, reply) ==
    IF ~client THEN Returns(NoneValue)
    ELSE IF OpenAIRaises(client, reply) THEN Returns(NoneValue)
    ELSE IF reply.kind = "not_json" THEN Returns(ParseFallback)
    ELSE Returns(reply.value)

\* the entry analyze stores when gpt_result is falsy
ErrorFallback == JDict(EntryKeys, "Neutral", 0, "Error: Could not analyze sentiment")

----------------------------------------------------------------------------
(* analyze_with_ml *)

\* label_reverse = {0: 'Negative', 1: 'Neutral', 2: 'Positive'}
label_reverse == [c \in 0..2 |-> class_labels[c + 1]]

\* X = self.vectorizer.transform([text]) raises NotFittedError on an unfitted
\* vectorizer
TransformRaises(vec) == ~vec.fitted

\* the feature vector: which vectorizer made it, its length, the text it encodes
Transform(vec, text) == [vgen |-> vec.gen, dim |-> vec.dim, text |-> text]

\* predict / predict_proba raise on an unfitted classifier and on an X whose
\* number of features differs from the one the classifier was fitted on
PredictRaises(m, X) == ~m.fitted \/ m.dim # X.dim

\* a distribution over the classes C (percent) that favours the class of rank fav
Distribution(C, fav) ==
    [c \in C |-> IF Rank(c, C) = fav THEN 100 - 20 * (Cardinality(C) - 1) ELSE 20]

\* classes_[np.argmax(p)]
Argmax(p) == CHOOSE c \in DOMAIN p : \A d \in DOMAIN p : p[c] >= p[d]

\* the distributions the model of predict_proba draws from, with their argmax
\* and maximum, tabulated
ProbaTable ==
    [C \in (SUBSET (0..3)) \ {{}} |->
        [fav \in 0 .. Cardinality(C) - 1 |->
            [proba |-> Distribution(C, fav),
             pred |-> Argmax(Distribution(C, fav)),
             max |-> Distribution(C, fav)[Argmax(Distribution(C, fav))]]]]

\* which distribution a fitted classifier gives for a feature vector: a fixed
\* function of the two
Fav(m, X) == (m.gen + X.vgen + TextCode(X.text)) % Cardinality(m.classes)

\* predict_proba(X)[0]
PredictProba(m, X) == ProbaTable[m.classes][Fav(m, X)].proba

\* predict(X)[0]: the class of highest probability
Predict(m, X) == ProbaTable[m.classes][Fav(m, X)].pred

\* predict_proba(X)[0].max()
MaxProba(m, X) == ProbaTable[m.classes][Fav(m, X)].max

MLEntry(sent, conf) == JDict({"sentiment", "confidence"}, sent, conf, "")

NoEntries == [k \in {} |-> NoneValue]

\* `if not self.vectorizer or not self.nb_model or not self.lr_model`
MLGuard(s) == ~IsSet(s.vectorizer) \/ ~IsSet(s.nb_model) \/ ~IsSet(s.lr_model)

\* the statements after the transform raise: predict, predict_proba, or the
\* lookup label_reverse[pred] (KeyError)
QueriesRaise(X, nb, lr) ==
    \/ PredictRaises(nb, X)
    \/ PredictRaises(lr, X)
    \/ Predict(nb, X) \notin DOMAIN label_reverse
    \/ Predict(lr, X) \notin DOMAIN label_reverse

\* a statement of the try block raises
MLRaises(vec, nb, lr, text) ==
    TransformRaises(vec) \/ QueriesRaise(Transform(vec, text), nb, lr)

\* the dict the try block returns, from X and the two classifiers queried
EntriesFor(X, nb, lr) ==
    [k \in {"naive_bayes", "logistic_regression"} |->
        IF k = "naive_bayes"
        THEN MLEntry(label_reverse[Predict(nb, X)], MaxProba(nb, X))
        ELSE MLEntry(label_reverse[Predict(lr, X)], MaxProba(lr, X))]

MLEntries(vec, nb, lr, text) == EntriesFor(Transform(vec, text), nb, lr)

\* analyze_with_ml(text): {} from the guard, {} from `except Exception`,
\* otherwise the two entries
analyze_with_ml(s, text) ==
    IF MLGuard(s) THEN Returns(NoEntries)
    ELSE IF MLRaises(s.vectorizer, s.nb_model, s.lr_model, text) THEN Returns(NoEntries)
    ELSE Returns(MLEntries(s.vectorizer, s.nb_model, s.lr_model, text))

----------------------------------------------------------------------------
(* analyze *)

\* variant: gpt_result stored without the `if gpt_result` test
PreTrainedEntry_NoFallback(gpt_result) == gpt_result

\* result['models']['pre_trained'] = gpt_result if gpt_result else {fallback}
PreTrainedEntry(gpt_result) == IF Truthy(gpt_result) THEN gpt_result ELSE ErrorFallback

\* variant: a non-empty `new` is assigned in place of `old`
Update_Assign(old, new) == IF DOMAIN new = {} THEN old ELSE new

\* dict.update: the keys of `new` are added to or replaced in `old`
Update(old, new) ==
    [k \in DOMAIN old \cup DOMAIN new |-> IF k \in DOMAIN new THEN new[k] ELSE old[k]]

\* variant: analyze_with_ml called whatever the flag
MLPart_IgnoresFlag(trained, s, text) == analyze_with_ml(s, text)

\* `if self.training_history['trained']:` guards the call of analyze_with_ml
MLPart(trained, s, text) ==
    IF trained THEN analyze_with_ml(s, text) ELSE Returns(NoEntries)

\* what the caller sees when an exception escapes analyze
RaisedResult(text) ==
    [raised |-> TRUE, text |-> text, models |-> NoEntries, training_status |-> FALSE]

\* the result dict analyze builds: status read at the top, then the outcome of
\* analyze_with_openai, then the outcome of the ML part
BuildResult(text, status, gpt, ml) ==
    IF gpt.exc \/ ml.exc THEN RaisedResult(text)
    ELSE [raised |-> FALSE,
          text |-> text,
          models |-> Update([k \in {"pre_trained"} |-> PreTrainedEntry(gpt.val)], ml.val),
          training_status |-> status]

----------------------------------------------------------------------------
(* train_models, _auto_train_models and __init__ as functions of self and disk *)

\* the fields of self that __init__ sets before loading
FreshSelf == [vectorizer |-> None, nb_model |-> None, lr_model |-> None,
              training_history |-> InitialHistory]

Self == [vectorizer |-> vectorizer, nb_model |-> nb_model, lr_model |-> lr_model,
         training_history |-> training_history]

\* what train_models hands its caller: {'error': msg} or the training history
\* (raised: an exception escaped the call instead)
ErrorResult(msg) ==
    [raised |-> FALSE, error |-> TRUE, msg |-> msg, history |-> InitialHistory]
HistoryResult(h) == [raised |-> FALSE, error |-> FALSE, msg |-> "", history |-> h]

\* variant: a failure in _save_models reaches the except clause of train_models
train_models_SaveErrorReturned(s, d, ds, g, io) ==
    IF LocalsOf[ds].too_few
    THEN [self |-> s, disk |-> d, entered |-> FALSE,
          ret |-> ErrorResult("Need at least 10 samples to train")]
    ELSE IF PipelineCompletes(ds)
    THEN [self |-> AfterStage(s, ds, g, NumStages),
          disk |-> SaveModels(AfterStage(s, ds, g, NumStages), d, io),
          entered |-> TRUE,
          ret |-> IF io = NoFailure
                  THEN HistoryResult(AfterStage(s, ds, g, NumStages).training_history)
                  ELSE ErrorResult("save failed")]
    ELSE [self |-> AfterStage(s, ds, g, LocalsOf[ds].done), disk |-> d, entered |-> TRUE,
          ret |-> ErrorResult(LocalsOf[ds].error)]

\* variant: without the except clause, the exception of the failing statement
\* escapes the call
train_models_NoExcept(s, d, ds, g, io) ==
    IF LocalsOf[ds].too_few
    THEN [self |-> s, disk |-> d, entered |-> FALSE,
          ret |-> ErrorResult("Need at least 10 samples to train")]
    ELSE IF PipelineCompletes(ds)
    THEN [self |-> AfterStage(s, ds, g, NumStages),
          disk |-> SaveModels(AfterStage(s, ds, g, NumStages), d, io),
          entered |-> TRUE,
          ret |-> HistoryResult(AfterStage(s, ds, g, NumStages).training_history)]
    ELSE [self |-> AfterStage(s, ds, g, LocalsOf[ds].done), disk |-> d, entered |-> TRUE,
          ret |-> [ErrorResult(LocalsOf[ds].error) EXCEPT !.raised = TRUE, !.error = FALSE]]

\* train_models(texts, labels) as pipeline run g with save outcome io:
\* self and the directory after the call, the returned value, and whether the
\* pipeline (the try block) was entered
train_models(s, d, ds, g, io) ==
    IF LocalsOf[ds].too_few
    THEN [self |-> s, disk |-> d, entered |-> FALSE,
          ret |-> ErrorResult("Need at least 10 samples to train")]
    ELSE IF PipelineCompletes(ds)
    THEN [self |-> AfterStage(s, ds, g, NumStages),
          disk |-> SaveModels(AfterStage(s, ds, g, NumStages), d, io),
          entered |-> TRUE,
          ret |-> HistoryResult(AfterStage(s, ds, g, NumStages).training_history)]
    ELSE [self |-> AfterStage(s, ds, g, LocalsOf[ds].done), disk |-> d, entered |-> TRUE,
          ret |-> ErrorResult(LocalsOf[ds].error)]

\* the outcomes of the save a call with this input can meet: _save_models is
\* called only when the pipeline ran to its end
IoFor(ds) ==
    IF ~LocalsOf[ds].too_few /\ PipelineCompletes(ds) THEN IoOutcomes ELSE {NoFailure}

\* training_data.json: absent, not JSON ("invalid"), a list of {text, label}
\* items ("data"), or a list of items without those keys ("nokeys")
TrainingFiles ==
    { [kind |-> k, ds |-> NoDataset] : k \in {"absent", "invalid"} }
    \cup { [kind |-> "data", ds |-> Dataset(n, "mixed", 0, 1)] :
              n \in {0, MinSamples - 1, MinSamples} }
    \cup { [kind |-> "data", ds |-> Dataset(MinSamples, "mixed", 0, 0)],
           [kind |-> "nokeys", ds |-> Dataset(MinSamples, "mixed", 0, 1)] }

NoFile == [kind |-> "absent", ds |-> NoDataset]

\* _auto_train_models(): like train_models, with `entered` false when
\* train_models is not called
auto_train_models(s, d, file, g, io) ==
    IF file.kind # "data" \/ file.ds.n = 0 \/ file.ds.n < MinSamples
    THEN [self |-> s, disk |-> d, entered |-> FALSE, ret |-> ErrorResult("")]
    ELSE train_models(s, d, file.ds, g, io)

\* variant: auto-training does not look at what loading found
construct_IgnoresLoaded(d, auto_train, file, g, io) ==
    IF auto_train
    THEN auto_train_models(LoadModels(FreshSelf, d), d, file, g, io)
    ELSE [self |-> LoadModels(FreshSelf, d), disk |-> d, entered |-> FALSE,
          ret |-> ErrorResult("")]

\* SentimentAnalyzer(openai_api_key, auto_train)
construct(d, auto_train, file, g, io) ==
    IF auto_train /\ ~LoadModels(FreshSelf, d).training_history.trained
    THEN auto_train_models(LoadModels(FreshSelf, d), d, file, g, io)
    ELSE [self |-> LoadModels(FreshSelf, d), disk |-> d, entered |-> FALSE,
          ret |-> ErrorResult("")]

----------------------------------------------------------------------------
(* State machine: the calls, each running to completion *)

\* os.getenv(name) is None (here <<>>) for an unset variable, else <<value>>
Unset == <<>>

\* an environment with none of the five variables set
NoEnviron == [VERCEL |-> Unset, CI |-> Unset, BUILD_ENV |-> Unset, NODE_ENV |-> Unset,
              OPENAI_API_KEY |-> Unset]

\* is_build_environment() not called yet
NotDetected == [main |-> <<>>, test |-> <<>>]

\* no request answered yet
NoResponse == [endpoint |-> "", status_code |-> 0, detail |-> ""]

NoCall == [op |-> "init", ds |-> NoDataset, text |-> "",
           reply |-> [kind |-> "raise", value |-> NoneValue],
           auto_train |-> FALSE, file |-> "absent"]

\* the partitions before any pipeline run reached the split
NoPartitions == [X_train |-> <<>>, X_test |-> <<>>, y_train |-> <<>>, y_test |-> <<>>]

\* the split of l.151-153 is reached once fit_transform has returned
ReachesSplit(ds) == LocalsOf[ds].done >= 2

\* no train_models call in flight on a thread; otherwise k is the number of
\* statements of the pipeline it has completed
IdleTrainer == [busy |-> FALSE, k |-> 0, ds |-> NoDataset, g |-> 0]

NoX == [vgen |-> 0, dim |-> 0, text |-> ""]

\* no analyze call in flight on a thread; otherwise its position and locals:
\* status and gpt are result['training_status'] and the outcome of
\* analyze_with_openai, X the transformed text, nb and lr the classifier
\* objects it has queried, ml the outcome of the ML part, and snapshot whether
\* the estimators formed one fitted set when analyze_with_ml began
IdleAnalyzer ==
    [pc |-> "idle", text |-> "", reply |-> [kind |-> "raise", value |-> NoneValue],
     status |-> FALSE, gpt |-> Returns(NoneValue), X |-> NoX, nb |-> None, lr |-> None,
     ml |-> Returns(NoEntries), snapshot |-> FALSE]

\* The process as main.py's lifespan starts it in a fresh working directory:
\* no ml_models directory, auto_train=False; the API key is configured or not
Init ==
    /\ openai_client \in BOOLEAN
    /\ vectorizer = None /\ nb_model = None /\ lr_model = None
    /\ training_history = InitialHistory
    /\ disk = EmptyDisk
    /\ runs = 0
    /\ call = NoCall
    /\ ret = ErrorResult("")
    /\ converted_labels = <<>>
    /\ partitions = NoPartitions
    /\ trainer = IdleTrainer
    /\ analyzer = IdleAnalyzer
    /\ environ = NoEnviron
    /\ sentiment_analyzer = FALSE
    /\ detected = NotDetected
    /\ response = NoResponse

SetSelf(s) ==
    /\ vectorizer' = s.vectorizer
    /\ nb_model' = s.nb_model
    /\ lr_model' = s.lr_model
    /\ training_history' = s.training_history

\* a call with this input gets past the size checks and runs the pipeline
EntersPipeline(ds) == ~LocalsOf[ds].too_few

\* the training_data.json the constructor finds in the working directory; it
\* opens the file only when auto_train is set and loading left the analyzer
\* untrained, so otherwise two contents stand for all
FilesRead(d, auto_train) ==
    IF auto_train /\ ~LoadModels(FreshSelf, d).training_history.trained
    THEN TrainingFiles
    ELSE {NoFile, [kind |-> "data", ds |-> Dataset(MinSamples, "mixed", 0, 1)]}

\* the constructor gets as far as calling train_models
WouldTrain(d, auto_train, file) ==
    /\ auto_train
    /\ file.kind = "data" /\ file.ds.n >= MinSamples
    /\ ~LoadModels(FreshSelf, d).training_history.trained

\* the save outcomes a constructor call can meet
ConstructIo(d, auto_train, file) ==
    IF WouldTrain(d, auto_train, file) THEN IoFor(file.ds) ELSE {NoFailure}

\* A new process (same configuration, same working directory) constructs the
\* analyzer: SentimentAnalyzer(openai_api_key, auto_train)
Construct(auto_train, file, io) ==
    /\ WouldTrain(disk, auto_train, file) => runs < MaxRuns
    /\ \E r \in {construct(disk, auto_train, file, runs + 1, io)} :
        /\ SetSelf(r.self)
        /\ disk' = r.disk
        /\ runs' = IF r.entered THEN runs + 1 ELSE runs
        /\ call' = [NoCall EXCEPT !.ds = file.ds, !.auto_train = auto_train,
                                  !.file = file.kind]
        /\ ret' = [r.ret EXCEPT !.msg = IF r.entered THEN "trained" ELSE "skipped"]
        /\ converted_labels' = IF r.entered THEN LocalsOf[file.ds].converted_labels
                               ELSE converted_labels
        /\ partitions' = IF r.entered /\ ReachesSplit(file.ds)
                         THEN LocalsOf[file.ds].partitions ELSE partitions
        /\ UNCHANGED <<openai_client, trainer, analyzer>>

\* train_models(texts, labels)
TrainModels(ds, io) ==
    /\ EntersPipeline(ds) => runs < MaxRuns
    /\ \E r \in {train_models(Self, disk, ds, runs + 1, io)} :
        /\ SetSelf(r.self)
        /\ disk' = r.disk
        /\ runs' = IF r.entered THEN runs + 1 ELSE runs
        /\ call' = [NoCall EXCEPT !.op = "train", !.ds = ds]
        /\ ret' = r.ret
        /\ converted_labels' = IF r.entered THEN LocalsOf[ds].converted_labels
                               ELSE converted_labels
        /\ partitions' = IF r.entered /\ ReachesSplit(ds)
                         THEN LocalsOf[ds].partitions ELSE partitions
        /\ UNCHANGED <<openai_client, trainer, analyzer>>

\* analyze(text), run without interruption
Analyze(text, reply) ==
    /\ call' = [NoCall EXCEPT !.op = "analyze", !.text = text, !.reply = reply]
    /\ \E gpt \in {analyze_with_openai(openai_client, reply)} :
       \E ml \in {MLPart(training_history.trained, Self, text)} :
          ret' = BuildResult(text, training_history.trained, gpt, ml)
    /\ UNCHANGED <<openai_client, memVars, disk, runs, converted_labels, partitions,
                   trainer, analyzer>>

Next ==
    \/ \E auto_train \in BOOLEAN : \E file \in FilesRead(disk, auto_train) :
          \E io \in ConstructIo(disk, auto_train, file) :
              Construct(auto_train, file, io) /\ UNCHANGED appVars
    \/ \E ds \in Datasets : \E io \in IoFor(ds) : TrainModels(ds, io) /\ UNCHANGED appVars
    \/ \E text \in Texts, reply \in Replies : Analyze(text, reply) /\ UNCHANGED appVars

Spec == Init /\ [][Next]_vars

----------------------------------------------------------------------------
(* State machine: train_models and analyze on two threads of one process,   *)
(* interleaved at the statements that read or assign the fields of self     *)

\* train_models(texts, labels) is called: the size check, and the label
\* conversion when it passes
TrainCall(ds) ==
    /\ ~trainer.busy
    /\ IF LocalsOf[ds].too_few
       THEN /\ call' = [NoCall EXCEPT !.op = "train", !.ds = ds]
            /\ ret' = ErrorResult("Need at least 10 samples to train")
            /\ UNCHANGED <<runs, converted_labels, partitions, trainer>>
       ELSE /\ runs < MaxRuns
            /\ runs' = runs + 1
            /\ converted_labels' = LocalsOf[ds].converted_labels
            /\ trainer' = [busy |-> TRUE, k |-> 0, ds |-> ds, g |-> runs + 1]
            /\ UNCHANGED <<call, ret, partitions>>
    /\ UNCHANGED <<openai_client, memVars, disk, analyzer>>

\* the next statement of the try block that assigns to or fits a field of self
TrainStep ==
    /\ trainer.busy
    /\ trainer.k < LocalsOf[trainer.ds].done
    /\ SetSelf(AfterStage(Self, trainer.ds, trainer.g, trainer.k + 1))
    /\ trainer' = [trainer EXCEPT !.k = trainer.k + 1]
    /\ partitions' = IF trainer.k + 1 = 2 THEN LocalsOf[trainer.ds].partitions
                     ELSE partitions
    /\ UNCHANGED <<openai_client, disk, runs, call, ret, converted_labels, analyzer>>

\* the call returns: after _save_models when the try block ran to its end,
\* from the except clause when a statement raised
TrainReturn(io) ==
    /\ trainer.busy
    /\ trainer.k = LocalsOf[trainer.ds].done
    /\ IF PipelineCompletes(trainer.ds)
       THEN /\ disk' = SaveModels(Self, disk, io)
            /\ ret' = HistoryResult(training_history)
       ELSE /\ disk' = disk
            /\ ret' = ErrorResult(LocalsOf[trainer.ds].error)
    /\ call' = [NoCall EXCEPT !.op = "train", !.ds = trainer.ds]
    /\ trainer' = IdleTrainer
    /\ UNCHANGED <<openai_client, memVars, runs, converted_labels, partitions, analyzer>>

\* the three estimators are fitted objects of one pipeline run
ConsistentSet(vec, nb, lr) ==
    /\ vec.fitted /\ nb.fitted /\ lr.fitted
    /\ nb.gen = vec.gen /\ lr.gen = vec.gen

\* analyze(text) is called: result = {..., 'training_status': ...} and
\* gpt_result = self.analyze_with_openai(text)
AnalyzeCall(text, reply) ==
    /\ analyzer.pc = "idle"
    /\ analyzer' = [IdleAnalyzer EXCEPT !.pc = "check", !.text = text, !.reply = reply,
                                        !.status = training_history.trained,
                                        !.gpt = analyze_with_openai(openai_client, reply)]
    /\ UNCHANGED <<openai_client, memVars, disk, runs, call, ret, converted_labels, partitions,
                   trainer>>

\* `if self.training_history['trained']:`
AnalyzeCheck ==
    /\ analyzer.pc = "check"
    /\ analyzer' = [analyzer EXCEPT !.pc = IF training_history.trained THEN "guard"
                                          ELSE "return"]
    /\ UNCHANGED <<openai_client, memVars, disk, runs, call, ret, converted_labels, partitions,
                   trainer>>

\* analyze_with_ml: `if not self.vectorizer or not self.nb_model or not self.lr_model`
AnalyzeGuard ==
    /\ analyzer.pc = "guard"
    /\ analyzer' = [analyzer EXCEPT
                      !.pc = IF MLGuard(Self) THEN "return" ELSE "transform",
                      !.snapshot = ConsistentSet(vectorizer, nb_model, lr_model)]
    /\ UNCHANGED <<openai_client, memVars, disk, runs, call, ret, converted_labels, partitions,
                   trainer>>

\* X = self.vectorizer.transform([text])
AnalyzeTransform ==
    /\ analyzer.pc = "transform"
    /\ analyzer' = IF TransformRaises(vectorizer)
                   THEN [analyzer EXCEPT !.pc = "return"]
                   ELSE [analyzer EXCEPT !.pc = "nb",
                                         !.X = Transform(vectorizer, analyzer.text)]
    /\ UNCHANGED <<openai_client, memVars, disk, runs, call, ret, converted_labels, partitions,
                   trainer>>

\* nb_pred = self.nb_model.predict(X)[0]; nb_proba = ...predict_proba(X)[0].max()
AnalyzeNB ==
    /\ analyzer.pc = "nb"
    /\ analyzer' = [analyzer EXCEPT
                      !.nb = nb_model,
                      !.pc = IF PredictRaises(nb_model, analyzer.X) THEN "return" ELSE "lr"]
    /\ UNCHANGED <<openai_client, memVars, disk, runs, call, ret, converted_labels, partitions,
                   trainer>>

\* lr_pred = self.lr_model.predict(X)[0]; lr_proba = ...; the returned dict
AnalyzeLR ==
    /\ analyzer.pc = "lr"
    /\ analyzer' = [analyzer EXCEPT
                      !.lr = lr_model,
                      !.pc = "return",
                      !.ml = IF QueriesRaise(analyzer.X, analyzer.nb, lr_model)
                             THEN Returns(NoEntries)
                             ELSE Returns(EntriesFor(analyzer.X, analyzer.nb, lr_model))]
    /\ UNCHANGED <<openai_client, memVars, disk, runs, call, ret, converted_labels, partitions,
                   trainer>>

\* result['models'].update(ml_results); return result
AnalyzeReturn ==
    /\ analyzer.pc = "return"
    /\ call' = [NoCall EXCEPT !.op = "analyze", !.text = analyzer.text,
                              !.reply = analyzer.reply]
    /\ ret' = BuildResult(analyzer.text, analyzer.status, analyzer.gpt, analyzer.ml)
    /\ analyzer' = IdleAnalyzer
    /\ UNCHANGED <<openai_client, memVars, disk, runs, converted_labels, partitions, trainer>>

\* The inputs of the interleaved calls: too few texts, a training input that
\* completes, one whose vectorizer fit raises and one whose first classifier
\* fit raises; a save that succeeds or fails at once; a request that raises
\* or is answered with JSON
ConcDatasets ==
    { Dataset(MinSamples - 1, "mixed", 0, 1),
      Dataset(MinSamples, "mixed", 0, 1),
      Dataset(MinSamples, "mixed", 0, 0),
      Dataset(MinSamples, "mixed", -4, 1) }

ConcIo(ds) == IoFor(ds) \cap {NoFailure, [at |-> 0, how |-> "open"]}

ConcReplies == {r \in Replies : r.kind = "raise" \/ r.value.sentiment = "Positive"}

NextConc ==
    \/ \E ds \in ConcDatasets : TrainCall(ds) /\ UNCHANGED appVars
    \/ TrainStep /\ UNCHANGED appVars
    \/ \E io \in ConcIo(trainer.ds) : TrainReturn(io) /\ UNCHANGED appVars
    \/ \E text \in Texts, reply \in ConcReplies :
          AnalyzeCall(text, reply) /\ UNCHANGED appVars
    \/ AnalyzeCheck /\ UNCHANGED appVars
    \/ AnalyzeGuard /\ UNCHANGED appVars
    \/ AnalyzeTransform /\ UNCHANGED appVars
    \/ AnalyzeNB /\ UNCHANGED appVars
    \/ AnalyzeLR /\ UNCHANGED appVars
    \/ AnalyzeReturn /\ UNCHANGED appVars

SpecConc == Init /\ [][NextConc]_vars

----------------------------------------------------------------------------
(* main.py: the environment, lifespan and the sentiment endpoints; the test *)
(* script test_build_env.py                                                  *)

\* The environments of the model: each variable unset, set to the value the
\* code compares it with, or set to another value ('' for the API key)
Environs ==
    [VERCEL : {Unset, <<"1">>, <<"0">>},
     CI : {Unset, <<"true">>, <<"1">>},
     BUILD_ENV : {Unset, <<"true">>, <<"false">>},
     NODE_ENV : {Unset, <<"production">>, <<"development">>},
     OPENAI_API_KEY : {Unset, <<"">>, <<"test">>}]

\* os.getenv(name)
getenv(env, name) == env[name]

\* `not os.getenv(name)`: None and '' are falsy
Falsy(v) == v = Unset \/ v = <<"">>

\* variant: `or` binds tighter than `and`
is_build_environment_OrFirst(env) ==
    /\ \/ getenv(env, "VERCEL") = <<"1">>
       \/ getenv(env, "CI") = <<"true">>
       \/ getenv(env, "BUILD_ENV") = <<"true">>
       \/ getenv(env, "NODE_ENV") = <<"production">>
    /\ Falsy(getenv(env, "OPENAI_API_KEY"))

\* main.py's is_build_environment(): a or b or c or (d and not e), each
\* operand a bool
is_build_environment(env) ==
    \/ getenv(env, "VERCEL") = <<"1">>
    \/ getenv(env, "CI") = <<"true">>
    \/ getenv(env, "BUILD_ENV") = <<"true">>
    \/ (getenv(env, "NODE_ENV") = <<"production">>
           /\ Falsy(getenv(env, "OPENAI_API_KEY")))

\* the copy of is_build_environment() in test_build_env.py
test_is_build_environment(env) ==
    \/ getenv(env, "VERCEL") = <<"1">>
    \/ getenv(env, "CI") = <<"true">>
    \/ getenv(env, "BUILD_ENV") = <<"true">>
    \/ (getenv(env, "NODE_ENV") = <<"production">>
           /\ Falsy(getenv(env, "OPENAI_API_KEY")))

\* settings.openai_api_key is truthy: the environment variable when it is set,
\* else the entry of the .env file, which may be empty or not
ClientsFor(env) ==
    IF getenv(env, "OPENAI_API_KEY") = Unset THEN BOOLEAN
    ELSE {~Falsy(getenv(env, "OPENAI_API_KEY"))}

InitApp ==
    /\ environ \in Environs
    /\ openai_client \in ClientsFor(environ)
    /\ vectorizer = None /\ nb_model = None /\ lr_model = None
    /\ training_history = InitialHistory
    /\ disk = EmptyDisk
    /\ runs = 0
    /\ call = NoCall
    /\ ret = ErrorResult("")
    /\ converted_labels = <<>>
    /\ partitions = NoPartitions
    /\ trainer = IdleTrainer
    /\ analyzer = IdleAnalyzer
    /\ sentiment_analyzer = FALSE
    /\ detected = NotDetected
    /\ response = NoResponse

\* lifespan has run up to its yield
Started == detected.main # <<>>

\* lifespan(app) at startup: nothing is initialized in a build environment;
\* otherwise SentimentAnalyzer(openai_api_key=..., auto_train=False), and the
\* global stays None when the constructor raises (OpenAI(api_key=...) is the
\* one statement of __init__ outside a try block)
Lifespan(ctor_raises, file, io) ==
    /\ ~Started
    /\ ctor_raises => openai_client
    /\ detected' = [detected EXCEPT !.main = <<is_build_environment(environ)>>]
    /\ IF is_build_environment(environ) \/ ctor_raises
       THEN UNCHANGED <<sentiment_analyzer, classVars>>
       ELSE /\ sentiment_analyzer' = TRUE
            /\ Construct(FALSE, file, io)
    /\ UNCHANGED <<environ, response>>

\* test_build_env.py calls its copy on the environment it runs in
TestBuildEnv ==
    /\ detected.test = <<>>
    /\ detected' = [detected EXCEPT !.test = <<test_is_build_environment(environ)>>]
    /\ UNCHANGED <<environ, sentiment_analyzer, response, classVars>>

HTTPException(status_code, detail) == [status_code |-> status_code, detail |-> detail]

\* raise HTTPException(status_code=503, detail="Sentiment Analyzer not initialized")
NotInitialized == HTTPException(503, "Sentiment Analyzer not initialized")

\* str(e) of the HTTPException raised inside the try block: status and detail
\* where the class defines __str__, the empty string where it does not
StrOf(e) ==
    IF e = NotInitialized THEN {"503: Sentiment Analyzer not initialized", ""}
    ELSE {e.detail}

\* `except Exception as e: raise HTTPException(status_code=500, detail=str(e))`:
\* HTTPException is an Exception, so the handler catches the one raised in
\* its own try block too
Handled(e) == {HTTPException(500, text) : text \in StrOf(e)}

Respond(endpoint, e) ==
    [endpoint |-> endpoint, status_code |-> e.status_code, detail |-> e.detail]

Ok(endpoint) == [endpoint |-> endpoint, status_code |-> 200, detail |-> ""]

\* POST /api/sentiment/analyze
AnalyzeEndpoint(text, reply) ==
    /\ Started
    /\ IF ~sentiment_analyzer
       THEN /\ \E e \in Handled(NotInitialized) : response' = Respond("analyze", e)
            /\ UNCHANGED classVars
       ELSE /\ Analyze(text, reply)
            /\ response' = IF ret'.raised
                           THEN Respond("analyze", HTTPException(500, "error"))
                           ELSE Ok("analyze")
    /\ UNCHANGED <<environ, sentiment_analyzer, detected>>

\* POST /api/sentiment/train
TrainEndpoint(ds, io) ==
    /\ Started
    /\ IF ~sentiment_analyzer
       THEN /\ \E e \in Handled(NotInitialized) : response' = Respond("train", e)
            /\ UNCHANGED classVars
       ELSE /\ TrainModels(ds, io)
            /\ response' = IF ret'.raised
                           THEN Respond("train", HTTPException(500, "error"))
                           ELSE Ok("train")
    /\ UNCHANGED <<environ, sentiment_analyzer, detected>>

\* GET /api/sentiment/training-status
TrainingStatusEndpoint ==
    /\ Started
    /\ IF ~sentiment_analyzer
       THEN \E e \in Handled(NotInitialized) : response' = Respond("training-status", e)
       ELSE response' = Ok("training-status")
    /\ UNCHANGED <<environ, sentiment_analyzer, detected, classVars>>

\* One process of the application: startup, then requests one at a time (the
\* endpoints are coroutines that call the analyzer without awaiting), with
\* the inputs of the interleaved machine
NextApp ==
    \/ \E ctor_raises \in BOOLEAN : \E file \in FilesRead(disk, FALSE) :
          Lifespan(ctor_raises, file, NoFailure)
    \/ TestBuildEnv
    \/ \E text \in Texts, reply \in ConcReplies : AnalyzeEndpoint(text, reply)
    \/ \E ds \in ConcDatasets : \E io \in ConcIo(ds) : TrainEndpoint(ds, io)
    \/ TrainingStatusEndpoint

SpecApp == InitApp /\ [][NextApp]_vars

----------------------------------------------------------------------------
(* Properties *)

\* the last completed call is train_models / analyze
LastIsTrain == call.op = "train"
LastIsAnalyze == call.op = "analyze"

PreTrained == ret.models["pre_trained"]

\* C1: a train_models call with fewer than 10 texts returns an error result
\* and leaves self.vectorizer, self.nb_model, self.lr_model,
\* self.training_history and the files under ml_models as they were.
C1_TooFewSamplesRejected ==
    [][(call'.op = "train" /\ call'.ds.n < MinSamples)
          => (ret'.error /\ UNCHANGED <<memVars, disk>>)]_vars

\* a call with 9 texts was rejected on an analyzer that is trained and has
\* its files on disk
C1_Witness ==
    /\ LastIsTrain /\ call.ds.n = MinSamples - 1 /\ ret.error
    /\ training_history.trained /\ vectorizer.fitted
    /\ disk.dir /\ disk.hist.st = "ok"

\* C2: analyze never raises and its result always has a models.pre_trained
\* entry, in every state of the analyzer and for every outcome of the
\* service call.
C2_AnalyzeTotal ==
    LastIsAnalyze => (~ret.raised /\ "pre_trained" \in DOMAIN ret.models)

\* the request raised, on an analyzer whose retraining failed after the
\* vectorizer was replaced (training_status true, transform raises)
C2_Witness ==
    /\ LastIsAnalyze /\ openai_client /\ call.reply.kind = "raise"
    /\ training_history.trained /\ IsSet(vectorizer) /\ ~vectorizer.fitted
    /\ ~ret.raised

\* C3: when there is no client or the request raises, models.pre_trained has
\* sentiment Neutral and confidence 0.0.
C3_ServiceFailureFallback ==
    (LastIsAnalyze /\ (~openai_client \/ call.reply.kind = "raise"))
        => (PreTrained.sentiment = "Neutral" /\ PreTrained.confidence = 0)

\* the request raised on a trained analyzer: the ML entries are there and
\* pre_trained is the fallback
C3_Witness ==
    /\ LastIsAnalyze /\ openai_client /\ call.reply.kind = "raise"
    /\ "naive_bayes" \in DOMAIN ret.models
    /\ PreTrained = ErrorFallback

\* the reply of the last analyze call had text content that is not JSON
ReplyNotJson == LastIsAnalyze /\ openai_client /\ call.reply.kind = "not_json"

\* C4 as stated: when the reply cannot be parsed as JSON, models.pre_trained
\* has sentiment Neutral and confidence 0.0, as for a failed call.
C4_ParseFailureIsErrorFallback ==
    ReplyNotJson => (PreTrained.sentiment = "Neutral" /\ PreTrained.confidence = 0)

\* C4 amended: when the reply's content is text that is not JSON,
\* models.pre_trained is the entry with sentiment Neutral, confidence 0.5 and
\* explanation "Could not parse response".
C4_ParseFailureFallback ==
    ReplyNotJson =>
        /\ PreTrained.sentiment = "Neutral"
        /\ PreTrained.confidence = 50
        /\ PreTrained.explanation = "Could not parse response"

C4_Witness == ReplyNotJson /\ ~ret.raised /\ ret.training_status

\* C5: in every result of analyze, models.pre_trained is an object whose
\* sentiment is Positive, Negative or Neutral and whose confidence lies in
\* [0,1]; a reply that is JSON but not of that shape becomes the fallback.
C5_PreTrainedWellFormed ==
    LastIsAnalyze =>
        /\ PreTrained.type = "dict"
        /\ {"sentiment", "confidence"} \subseteq PreTrained.keys
        /\ PreTrained.sentiment \in {"Positive", "Negative", "Neutral"}
        /\ PreTrained.confidence \in 0..100

\* the four members are the fitted products of pipeline run g
ProductsOfRun(g, vec, nb, lr, hist) ==
    /\ vec.gen = g /\ vec.fitted
    /\ nb.gen = g /\ nb.fitted
    /\ lr.gen = g /\ lr.fitted
    /\ hist.gen = g /\ hist.trained

\* C6: after a train_models call, successful or not, vectorizer, nb_model,
\* lr_model and training_history are all products of that call or all as
\* they were before it.
C6_AtomicReplacement ==
    [][(call'.op = "train")
          => \/ UNCHANGED memVars
             \/ ProductsOfRun(runs', vectorizer', nb_model', lr_model',
                              training_history')]_vars

\* C7: a result of analyze whose training_status is false has pre_trained as
\* its only models key; naive_bayes and logistic_regression appear only in
\* results whose training_status is true.
C7_UntrainedOnlyPreTrained ==
    LastIsAnalyze =>
        /\ ~ret.training_status => DOMAIN ret.models = {"pre_trained"}
        /\ ({"naive_bayes", "logistic_regression"} \cap DOMAIN ret.models # {})
              => ret.training_status

\* analyze ran with all three estimators fitted in memory and the flag false
\* (the pipeline failed after the fits, at the metrics)
C7_Witness ==
    /\ LastIsAnalyze /\ ~ret.training_status
    /\ vectorizer.fitted /\ nb_model.fitted /\ lr_model.fitted
    /\ DOMAIN ret.models = {"pre_trained"}

\* the entry for classifier m is its argmax class by name with its maximum
\* class probability, for the text of the last call
ArgmaxEntry(entry, m) ==
    \E c \in m.classes :
        /\ \A d \in m.classes :
              PredictProba(m, Transform(vectorizer, call.text))[c]
                  >= PredictProba(m, Transform(vectorizer, call.text))[d]
        /\ c \in 0..2
        /\ entry.sentiment = class_labels[c + 1]
        /\ entry.confidence = PredictProba(m, Transform(vectorizer, call.text))[c]

\* C8: a result of analyze whose training_status is true has a naive_bayes
\* and a logistic_regression entry, each naming its classifier's argmax class
\* (Negative, Neutral or Positive) with its maximum class probability.
C8_TrainedBothEntries ==
    (LastIsAnalyze /\ ret.training_status) =>
        /\ {"naive_bayes", "logistic_regression"} \subseteq DOMAIN ret.models
        /\ ArgmaxEntry(ret.models["naive_bayes"], nb_model)
        /\ ArgmaxEntry(ret.models["logistic_regression"], lr_model)

\* C9: with train_models running concurrently, an analyze call that began
\* analyze_with_ml on one fitted set of estimators queries only fitted
\* classifiers of the training run whose vectorizer transformed its text.
C9_ConsistentPairing ==
    analyzer.snapshot =>
        \A m \in {analyzer.nb, analyzer.lr} :
            IsSet(m) => (m.fitted /\ m.gen = analyzer.X.vgen)

\* the last call ran the label conversion: a train_models call past the size
\* check, or a constructor that auto-trained
Converted ==
    \/ LastIsTrain /\ call.ds.n >= MinSamples
    \/ call.op = "init" /\ ret.msg = "trained"

\* C10: train_models maps label -1 to index 0, 0 to 1, 1 to 2 and any other
\* label to 1; the names of the indices at inference are Negative, Neutral,
\* Positive, so -1, 0, 1 come back as Negative, Neutral, Positive; the three
\* indices of -1, 0, 1 are distinct.
C10_LabelMapping ==
    Converted =>
        /\ Len(converted_labels) = Len(call.ds.labels)
        /\ \A i \in DOMAIN call.ds.labels :
              /\ call.ds.labels[i] = -1 =>
                    /\ converted_labels[i] = 0
                    /\ label_reverse[converted_labels[i]] = "Negative"
              /\ call.ds.labels[i] = 0 =>
                    /\ converted_labels[i] = 1
                    /\ label_reverse[converted_labels[i]] = "Neutral"
              /\ call.ds.labels[i] = 1 =>
                    /\ converted_labels[i] = 2
                    /\ label_reverse[converted_labels[i]] = "Positive"
              /\ call.ds.labels[i] \notin {-1, 0, 1} => converted_labels[i] = 1
        /\ \A i, j \in DOMAIN call.ds.labels :
              (call.ds.labels[i] \in {-1, 0, 1} /\ call.ds.labels[j] \in {-1, 0, 1}
                  /\ call.ds.labels[i] # call.ds.labels[j])
                 => converted_labels[i] # converted_labels[j]

\* a call converted a label list holding -1, 0, 1 and two values outside them
C10_Witness ==
    /\ Converted
    /\ {-1, 0, 1, 2, -2} \subseteq Range(call.ds.labels)
    /\ Range(converted_labels) = {0, 1, 2}

\* the files under ml_models are not the complete dumps of the estimators
\* and history now in memory
NotOnDisk ==
    ~(/\ disk.dir
      /\ disk.vec = Dumped(vectorizer) /\ disk.nb = Dumped(nb_model)
      /\ disk.lr = Dumped(lr_model) /\ disk.hist = Dumped(training_history))

\* the last call was a train_models call whose try block ran to its end
LastTrainCompleted ==
    LastIsTrain /\ call.ds.n >= MinSamples /\ PipelineCompletes(call.ds)

\* C11: when the pipeline of a train_models call completes and the save
\* fails, the call returns the new training history without an error, the
\* new vectorizer, classifiers and history stay in memory, and a following
\* analyze answers with them.
C11_SaveFailureKeepsModels ==
    /\ (LastTrainCompleted /\ NotOnDisk) =>
          /\ ~ret.error
          /\ ret.history = training_history
          /\ ProductsOfRun(runs, vectorizer, nb_model, lr_model, training_history)
    /\ (LastIsAnalyze /\ NotOnDisk /\ training_history.trained
           /\ ProductsOfRun(training_history.gen, vectorizer, nb_model, lr_model,
                            training_history)) =>
          /\ ret.training_status
          /\ {"naive_bayes", "logistic_regression"} \subseteq DOMAIN ret.models
          /\ ArgmaxEntry(ret.models["naive_bayes"], nb_model)
          /\ ArgmaxEntry(ret.models["logistic_regression"], lr_model)

\* analyze answered with the classifiers of a second training run whose save
\* failed at os.makedirs or partway, the files of the first run still on disk
C11_Witness ==
    /\ LastIsAnalyze /\ NotOnDisk
    /\ training_history.gen = 2
    /\ ProductsOfRun(2, vectorizer, nb_model, lr_model, training_history)
    /\ disk.hist.st = "ok" /\ disk.hist.data.gen = 1
    /\ "naive_bayes" \in DOMAIN ret.models

\* an input on which a statement of the pipeline raises: no term survives
\* the vectorizer's pruning, texts and labels differ in length, or the labels
\* of the training partition are all the same
FailingInput(ds) ==
    \/ ds.vocab = 0
    \/ Len(ds.labels) # ds.n
    \/ \A i, j \in 1 .. Min(SplitIdx(ds.n), Len(ds.labels)) : ds.labels[i] = ds.labels[j]

\* C12: a train_models call with at least 10 texts never lets an exception
\* escape; when a statement of the pipeline fails (empty vocabulary, a
\* classifier fit error, texts and labels of different lengths, a metric
\* error) it returns {'error': <string>}.
C12_PipelineErrorsReturned ==
    (LastIsTrain /\ call.ds.n >= MinSamples) =>
        /\ ~ret.raised
        /\ FailingInput(call.ds) => (ret.error /\ ret.msg # "")

\* the four kinds of failure, each met by a call that returned an error:
\* here the metrics failed (one label too many) on a trained analyzer
C12_Witness ==
    /\ LastIsTrain /\ call.ds.n >= MinSamples
    /\ Len(call.ds.labels) = call.ds.n + 1
    /\ ret.error /\ training_history.trained

\* the step is the start of a new process, whose constructor runs _load_models
IsRestart == call'.op = "init"

\* C13: when the files under ml_models are the complete dumps of a trained
\* analyzer's vectorizer, classifiers and history (a successful train_models
\* whose save succeeded), a fresh analyzer constructed in the same directory
\* holds exactly those four, and both classifiers predict as before on every
\* probe text.
C13_SaveLoadRoundTrip ==
    [][(IsRestart /\ ~NotOnDisk /\ training_history.trained
           /\ ProductsOfRun(training_history.gen, vectorizer, nb_model, lr_model,
                            training_history))
          => /\ vectorizer' = vectorizer /\ nb_model' = nb_model
             /\ lr_model' = lr_model /\ training_history' = training_history
             /\ \A text \in Texts :
                   /\ Predict(nb_model', Transform(vectorizer', text))
                         = Predict(nb_model, Transform(vectorizer, text))
                   /\ Predict(lr_model', Transform(vectorizer', text))
                         = Predict(lr_model, Transform(vectorizer, text))]_vars

\* a fresh analyzer loaded the complete files of the second training run
C13_Witness ==
    /\ call.op = "init" /\ ret.msg = "skipped"
    /\ ~NotOnDisk
    /\ ProductsOfRun(2, vectorizer, nb_model, lr_model, training_history)
    /\ training_history.samples = MinSamples

\* the last step started a process whose constructor ran _load_models and
\* then no training (auto_train off, or nothing to train on)
LoadedOnly == call.op = "init" /\ ret.msg = "skipped"

\* C14: when the ml_models directory is absent, or vectorizer.pkl,
\* nb_model.pkl or lr_model.pkl is missing from it, _load_models loads
\* nothing: the three estimators stay unset, training_history.trained stays
\* false, and no exception escapes.
C14_MissingFileLoadsNothing ==
    (LoadedOnly /\ (~disk.dir \/ ~Exists(disk.vec) \/ ~Exists(disk.nb) \/ ~Exists(disk.lr)))
        => /\ ~ret.raised
           /\ vectorizer = None /\ nb_model = None /\ lr_model = None
           /\ ~training_history.trained
           /\ training_history = InitialHistory

\* the directory holds a complete vectorizer.pkl and no lr_model.pkl (a save
\* that failed partway), and the fresh analyzer loaded nothing
C14_Witness ==
    /\ LoadedOnly
    /\ disk.dir /\ disk.vec.st = "ok" /\ ~Exists(disk.lr)
    /\ vectorizer = None /\ ~training_history.trained

\* the training runs the members now set in memory come from
RunsInMemory ==
    {m.gen : m \in {x \in {vectorizer, nb_model, lr_model, training_history} : x.gen # 0}}

\* C15: whatever train_models calls came before, with saves that succeeded,
\* failed at the start or failed partway through the four writes, what a
\* later _load_models puts in memory (vectorizer, classifiers, history) comes
\* from one training run.
C15_StoreCoherent ==
    LoadedOnly => Cardinality(RunsInMemory) <= 1

\* training_data.json as the constructor of this step found it: a list of at
\* least 10 {text, label} items, or a list of at least 10 entries of any kind
EnoughItems == call'.file = "data" /\ call'.ds.n >= MinSamples
EnoughEntries == call'.file \in {"data", "nokeys"} /\ call'.ds.n >= MinSamples

\* the pipeline ran once in this step / did not run and self is as loaded
TrainedOnce == runs' = runs + 1
NotInvoked ==
    /\ runs' = runs
    /\ vectorizer' = LoadModels(FreshSelf, disk).vectorizer
    /\ nb_model' = LoadModels(FreshSelf, disk).nb_model
    /\ lr_model' = LoadModels(FreshSelf, disk).lr_model
    /\ training_history' = LoadModels(FreshSelf, disk).training_history

\* C16 as stated: at process startup, when loading yields no trained model
\* the pipeline runs exactly once if training_data.json has at least 10
\* entries and not at all if it is absent or shorter; when loading yields a
\* trained model it does not run; no error escapes the constructor.
C16_StartupTrainsOnce ==
    [][IsRestart =>
          /\ ~ret'.raised
          /\ IF LoadModels(FreshSelf, disk).training_history.trained
             THEN NotInvoked
             ELSE IF EnoughEntries THEN TrainedOnce ELSE NotInvoked]_vars

\* C16 amended: the same for a constructor called with auto_train set (its
\* default) on a file of at least 10 items that each have the keys text and
\* label; with auto_train off, as main.py constructs the analyzer, or on
\* items without those keys, the pipeline does not run.
C16_AutoTrainOnce ==
    [][IsRestart =>
          /\ ~ret'.raised
          /\ IF LoadModels(FreshSelf, disk).training_history.trained
             THEN NotInvoked
             ELSE IF call'.auto_train /\ EnoughItems THEN TrainedOnce ELSE NotInvoked]_vars

\* a constructor with auto_train set found nothing loadable in a directory
\* left by a failed save, and 10 items to train on: it trained once
C16_Witness ==
    /\ call.op = "init" /\ call.auto_train /\ call.file = "data"
    /\ ret.msg = "trained" /\ runs = 2
    /\ training_history.trained /\ training_history.gen = 2

\* the last call's pipeline got past the split of texts and labels
SplitDone == Converted /\ call.ds.vocab > 0

\* C17: for n >= 10 samples the training partition is samples
\* 0 .. floor(0.8 n) - 1 and the held-out partition samples
\* floor(0.8 n) .. n - 1, both in input order (rows numbered from 1 here);
\* they are disjoint, cover all samples, and the held-out one is not empty;
\* the labels are cut at the same place.
C17_PositionalSplit ==
    SplitDone =>
        LET n == call.ds.n
            k == (4 * n) \div 5
        IN  /\ partitions.X_train = [i \in 1..k |-> i]
            /\ partitions.X_test = [j \in 1..(n - k) |-> k + j]
            /\ Range(partitions.X_train) \cap Range(partitions.X_test) = {}
            /\ Range(partitions.X_train) \cup Range(partitions.X_test) = 1..n
            /\ partitions.X_test # <<>>
            /\ Len(call.ds.labels) = n =>
                  /\ partitions.y_train = [i \in 1..k |-> converted_labels[i]]
                  /\ partitions.y_test = [j \in 1..(n - k) |-> converted_labels[k + j]]

\* a call with 10 texts and 10 labels was split 8 / 2
C17_Witness ==
    /\ SplitDone /\ LastIsTrain
    /\ call.ds.n = MinSamples /\ Len(call.ds.labels) = MinSamples
    /\ Len(partitions.X_train) = 8 /\ Len(partitions.y_test) = 2

\* a matrix of 3 rows of 3 nonnegative integers whose sum is total
IsMatrix3x3(cm, total) ==
    /\ Len(cm) = 3
    /\ \A r \in 1..3 : Len(cm[r]) = 3 /\ \A c \in 1..3 : cm[r][c] \in Nat
    /\ cm[1][1] + cm[1][2] + cm[1][3] + cm[2][1] + cm[2][2] + cm[2][3]
         + cm[3][1] + cm[3][2] + cm[3][3] = total

\* C18: after every successful train_models, cm_nb and cm_lr in the training
\* history are 3 x 3 matrices of nonnegative integers whose entries sum to
\* the number of held-out samples.
C18_ConfusionMatrices3x3 ==
    (LastIsTrain /\ LastTrainCompleted) =>
        /\ IsMatrix3x3(training_history.cm_nb, Len(partitions.X_test))
        /\ IsMatrix3x3(training_history.cm_lr, Len(partitions.X_test))

\* C19: every result of analyze has its models keyed by pre_trained,
\* naive_bayes and logistic_regression only, and after the merge of the
\* local-classifier entries pre_trained is still the entry the service step
\* made (the service's result or the fallback).
C19_MergeKeepsPreTrained ==
    (LastIsAnalyze /\ ~ret.raised) =>
        /\ DOMAIN ret.models \subseteq {"pre_trained", "naive_bayes", "logistic_regression"}
        /\ "pre_trained" \in DOMAIN ret.models
        /\ PreTrained = PreTrainedEntry(analyze_with_openai(openai_client, call.reply).val)

\* the service's own result next to both local-classifier entries
C19_Witness ==
    /\ LastIsAnalyze /\ ~ret.raised
    /\ openai_client /\ call.reply.kind = "json"
    /\ call.reply.value.sentiment = "Positive"
    /\ DOMAIN ret.models = {"pre_trained", "naive_bayes", "logistic_regression"}
    /\ PreTrained = call.reply.value
    /\ ret.models["naive_bayes"] # PreTrained

\* C20: a train_models call that returns a history (not an error) returns
\* the document it stored as training_history, with trained true and samples
\* equal to the number of input texts; from then on the analyzer stays
\* trained through further train_models calls, failed ones included, and
\* every analyze reports training_status true.
C20_TrainedHistory ==
    [][/\ (call'.op = "train" /\ ~ret'.raised /\ ~ret'.error) =>
             /\ ret'.history = training_history'
             /\ training_history'.trained
             /\ training_history'.samples = call'.ds.n
       /\ (training_history.trained /\ call'.op = "train") => training_history'.trained
       /\ (training_history.trained /\ call'.op = "analyze") =>
             /\ ret'.training_status
             /\ training_history'.trained]_vars

\* analyze reported training_status true after a train_models call on 10
\* texts (8 in the training partition) whose history was never written to disk
C20_Witness ==
    /\ LastIsAnalyze /\ ~ret.raised /\ ret.training_status
    /\ disk.hist.st = "absent"
    /\ training_history.samples = MinSamples
    /\ Len(partitions.X_train) = 8

\* C22: in every state of an analyzer, after construction, load, auto-train
\* and any train_models and analyze calls (failed ones included), when
\* training_history.trained is true the vectorizer and both classifiers are
\* set, so the missing-model guard of analyze_with_ml does not fire.
C22_TrainedImpliesModelsSet ==
    training_history.trained =>
        /\ IsSet(vectorizer) /\ IsSet(nb_model) /\ IsSet(lr_model)
        /\ ~MLGuard(Self)

\* a trained analyzer after a train_models call that failed in the pipeline:
\* the vectorizer is a new object, set though not fitted
C22_Witness ==
    /\ LastIsTrain /\ ret.error
    /\ training_history.trained
    /\ IsSet(vectorizer) /\ ~vectorizer.fitted
    /\ IsSet(nb_model) /\ IsSet(lr_model)

\* the condition C21 states, on the environment of the process
StatedBuildCondition ==
    \/ environ.VERCEL = <<"1">>
    \/ environ.CI = <<"true">>
    \/ environ.BUILD_ENV = <<"true">>
    \/ /\ environ.NODE_ENV = <<"production">>
       /\ environ.OPENAI_API_KEY \in {Unset, <<"">>}

\* NODE_ENV is production, the API key is set and not empty, and none of
\* VERCEL, CI and BUILD_ENV has its build value
ProductionWithKey ==
    /\ environ.NODE_ENV = <<"production">>
    /\ environ.OPENAI_API_KEY \notin {Unset, <<"">>}
    /\ environ.VERCEL # <<"1">> /\ environ.CI # <<"true">> /\ environ.BUILD_ENV # <<"true">>

\* C21: is_build_environment() returns true exactly when VERCEL is '1', CI
\* is 'true', BUILD_ENV is 'true', or NODE_ENV is 'production' with
\* OPENAI_API_KEY unset or empty; with NODE_ENV 'production', the key set and
\* none of the other three matching it returns false; the copy in the test
\* script returns the same as the one in main.py.
C21_BuildEnvironment ==
    /\ detected.main # <<>> => detected.main = <<StatedBuildCondition>>
    /\ detected.test # <<>> => detected.test = <<StatedBuildCondition>>
    /\ (detected.main # <<>> /\ ProductionWithKey) => detected.main = <<FALSE>>
    /\ (detected.main # <<>> /\ detected.test # <<>>) => detected.main = detected.test

\* both copies were called with NODE_ENV production and the key set, and
\* startup went on to construct the analyzer
C21_Witness ==
    /\ ProductionWithKey
    /\ detected.main = <<FALSE>> /\ detected.test = <<FALSE>>
    /\ sentiment_analyzer

\* C23: when the analyzer is not initialized (startup skipped in a build
\* environment, or the constructor raised), each of the endpoints analyze,
\* train and training-status answers with status 503 and detail
\* "Sentiment Analyzer not initialized".
C23_NotInitializedIs503 ==
    (Started /\ ~sentiment_analyzer /\ response # NoResponse) =>
        /\ response.endpoint \in {"analyze", "train", "training-status"}
        /\ response.status_code = 503
        /\ response.detail = "Sentiment Analyzer not initialized"

====
